---- MODULE Spec2Model ----
(***************************************************************************)
(* Model of the Digraph type of mdlayher/godigraph (digraph.go) and of its *)
(* AdjacencyList (adjacencyList.go).  Every critical section of the code   *)
(* (d.m.Lock() ... deferred d.m.Unlock()) is one action, preceded by the   *)
(* Lock action that acquires the mutex; AddEdge is the sequence of its     *)
(* five critical sections, exactly as the code runs them.                  *)
(***************************************************************************)
EXTENDS Integers, Sequences, FiniteSets, TLC

\* ---------------------------------------------------------------- bounds
\* Vertex values a caller supplies are NilVertex and 1..MaxVertex.
MaxVertex == 2
\* No AddEdge call is started once edgeCount has reached MaxEdges.
MaxEdges == 3
\* Number of goroutines sharing the one Digraph.
NumThreads == 2

\* ------------------------------------------------------------- constants
\* The nil interface value: the zero value of Vertex (interface{}).
NilVertex == 0

Vertex == NilVertex .. MaxVertex
Threads == 1 .. NumThreads

\* Error values; "nil" is the nil error.
ErrCycle == "ErrCycle"
ErrEdgeExists == "ErrEdgeExists"
ErrVertexExists == "ErrVertexExists"
ErrVertexNotExists == "ErrVertexNotExists"
NilError == "nil"

\* The edges TestDepthFirstSearch and TestEdgeCount insert, in the order
\* they insert them, and the vertices these edges join.
Scenario == << <<1, 2>>, <<1, 5>>, <<2, 3>>, <<2, 5>>, <<3, 4>>,
              <<3, 6>>, <<4, 5>>, <<4, 6>>, <<5, 6>> >>
ScenarioVertex == {Scenario[i][1] : i \in DOMAIN Scenario} \cup {Scenario[i][2] : i \in DOMAIN Scenario}

VARIABLES
    m,            \* d.m: 0 when free, else the thread holding it
    adjList,      \* d.adjList: vertex -> its *AdjacencyList (allocation id, list contents)
    edgeCount,    \* d.edgeCount
    root,         \* d.root (NilVertex while unset)
    vertexCount,  \* d.vertexCount
    pc,           \* per thread: position in the call it is executing
    call,         \* per thread: the call it is executing and its arguments
    log           \* history: the most recent calls, their results, and counts of calls

vars == <<m, adjList, edgeCount, root, vertexCount, pc, call, log>>

\* ------------------------------------------------------- AdjacencyList
\* NewAdjacencyList: a fresh object holding an empty list.  A pointer is
\* modelled by the number of the allocation made for that map key, so a
\* second allocation for a key yields a pointer different from the first.
NewAdjacencyList(vertex) ==
    [id |-> IF vertex \in DOMAIN adjList THEN adjList[vertex].id + 1 ELSE 1,
     list |-> << >>]

\* AdjacencyList.Adjacent: the values of the list, front to back.
Adjacent(a) == a.list

\* AdjacencyList.Search: the Value of the first element equal to target,
\* or nil when there is none.
RECURSIVE SearchFrom(_, _, _)
SearchFrom(list, i, target) ==
    IF i > Len(list) THEN NilVertex
    ELSE IF list[i] = target THEN list[i]
    ELSE SearchFrom(list, i + 1, target)

Search(a, target) == SearchFrom(a.list, 1, target)

\* ------------------------------------------------------------- Digraph
\* Digraph.dfs: recursive traversal, threading the discovered set.  The
\* lookup d.adjList[target] of a key the map lacks yields a nil pointer,
\* and Adjacent() on it is a nil dereference: the goroutine panics.
RECURSIVE dfs(_, _, _), dfsLoop(_, _, _, _)
dfsLoop(G, r, adjacent, i) ==
    IF r.panicked \/ i > Len(adjacent) THEN r
    ELSE IF adjacent[i] \notin r.discovered
         THEN dfsLoop(G, dfs(G, r.discovered \cup {adjacent[i]}, adjacent[i]), adjacent, i + 1)
         ELSE dfsLoop(G, r, adjacent, i + 1)
dfs(G, discovered, target) ==
    IF target \notin DOMAIN G
    THEN [panicked |-> TRUE, discovered |-> discovered]
    ELSE dfsLoop(G, [panicked |-> FALSE, discovered |-> discovered], Adjacent(G[target]), 1)

\* Faulty DepthFirstSearch: looks at the direct successors of source only.
DepthFirstSearch_direct(G, source, target) ==
    IF source \notin DOMAIN G
    THEN [panicked |-> TRUE, result |-> FALSE]
    ELSE [panicked |-> FALSE,
          result |-> \E i \in 1 .. Len(G[source].list) : G[source].list[i] = target]

\* Faulty DepthFirstSearch: the source starts out as discovered.
DepthFirstSearch_self(G, source, target) ==
    LET r == dfs(G, {source}, source)
    IN [panicked |-> r.panicked, result |-> ~r.panicked /\ target \in r.discovered]

\* Digraph.DepthFirstSearch: whether it panicked, else the boolean it returns.
DepthFirstSearch(G, source, target) ==
    LET r == dfs(G, {}, source)
    IN [panicked |-> r.panicked, result |-> ~r.panicked /\ target \in r.discovered]

\* Faulty HasEdge: never finds the edge.
HasEdge_never(G, source, target) == FALSE

\* Digraph.HasEdge.
HasEdge(G, source, target) ==
    IF source \notin DOMAIN G THEN FALSE
    ELSE Search(G[source], target) # NilVertex

\* Digraph.printRecursive.  The string it builds is kept as the sequence
\* of its lines, each line being prefix, " - ", the vertex and a newline.
\* path holds the vertices whose call is on the stack, outermost first,
\* and each line records the depth of the call that wrote it: with all = TRUE
\* nothing stops a call from reaching its own vertex again, the recursion
\* then repeats without end and the stack overflows.  The lookup of a key
\* the map lacks yields a nil pointer and Adjacent() on it panics.
RECURSIVE printRecursive(_, _, _, _, _, _), printLoop(_, _, _, _, _, _, _)
printLoop(G, r, adjacent, i, prefix, all, path) ==
    IF r.overflow \/ r.panicked \/ i > Len(adjacent) THEN r
    ELSE IF ~all /\ adjacent[i] \in r.printed
    THEN printLoop(G, r, adjacent, i + 1, prefix, all, path)
    ELSE LET sub == printRecursive(G,
                        IF all THEN r.printed ELSE r.printed \cup {adjacent[i]},
                        adjacent[i],
                        prefix \o (IF i = Len(adjacent) THEN "    " ELSE "   |"),
                        all, path)
         IN printLoop(G, [out |-> r.out \o sub.out, printed |-> sub.printed,
                          overflow |-> sub.overflow, panicked |-> sub.panicked],
                      adjacent, i + 1, prefix, all, path)
printRecursive(G, printed, vertex, prefix, all, path) ==
    LET str == << [prefix |-> prefix, vertex |-> vertex, depth |-> Len(path)] >>
    IN IF vertex \notin DOMAIN G
       THEN [out |-> str, printed |-> printed, overflow |-> FALSE, panicked |-> TRUE]
       ELSE IF all /\ \E k \in 1 .. Len(path) : path[k] = vertex
       THEN [out |-> str, printed |-> printed, overflow |-> TRUE, panicked |-> FALSE]
       ELSE printLoop(G, [out |-> str, printed |-> printed,
                          overflow |-> FALSE, panicked |-> FALSE],
                      Adjacent(G[vertex]), 1, prefix, all, Append(path, vertex))

\* Faulty Print: it expands every path whatever the caller asks for.
PrintResult_all(G, vertex, all) ==
    IF vertex \notin DOMAIN G
    THEN [err |-> ErrVertexNotExists, out |-> << >>, overflow |-> FALSE, panicked |-> FALSE]
    ELSE LET r == printRecursive(G, {}, vertex, "", TRUE, << >>)
         IN [err |-> NilError, out |-> r.out, overflow |-> r.overflow, panicked |-> r.panicked]

\* Faulty Print: it does not check that the vertex exists.
PrintResult_unchecked(G, vertex, all) ==
    LET r == printRecursive(G, {}, vertex, "", all, << >>)
    IN [err |-> NilError, out |-> r.out, overflow |-> r.overflow, panicked |-> r.panicked]

\* Digraph.Print inside its critical section: the error, the string (no
\* lines at all for ""), and whether the recursion overflowed or panicked.
PrintResult(G, vertex, all) ==
    IF vertex \notin DOMAIN G
    THEN [err |-> ErrVertexNotExists, out |-> << >>, overflow |-> FALSE, panicked |-> FALSE]
    ELSE LET r == printRecursive(G, {}, vertex, "", all, << >>)
         IN [err |-> NilError, out |-> r.out, overflow |-> r.overflow, panicked |-> r.panicked]

\* Faulty self-loop test: never fires.
SameVertex_never(source, target) == FALSE

\* Digraph.AddEdge: the test that rejects a self-loop before anything else.
SameVertex(source, target) == source = target

\* Faulty lookup: the vertex is never found.
VertexFound_never(vertex) == FALSE

\* Digraph.AddVertex: the lookup that decides ErrVertexExists.
VertexFound(vertex) == vertex \in DOMAIN adjList

\* Digraph.AddVertex: the test for the first vertex of the digraph.
RootUnset == root = NilVertex

\* Faulty counter update: the increment is missing.
IncVertexCount_none(n) == n

\* Digraph.AddVertex: d.vertexCount++.
IncVertexCount(n) == n + 1

\* Faulty AddVertex result: nil even when the vertex exists.
AddVertexResult_nil(vertex) == NilError

\* Digraph.AddVertex: value returned.
AddVertexResult(vertex) == IF VertexFound(vertex) THEN ErrVertexExists ELSE NilError

\* Faulty AddVertex: it counts the vertex before it looks it up.
AddVertexBody_count(vertex) ==
    IF VertexFound(vertex)
    THEN /\ vertexCount' = IncVertexCount(vertexCount)
         /\ UNCHANGED <<adjList, root>>
    ELSE /\ root' = IF RootUnset THEN vertex ELSE root
         /\ adjList' = [v \in DOMAIN adjList \cup {vertex} |->
                           IF v = vertex THEN NewAdjacencyList(vertex) ELSE adjList[v]]
         /\ vertexCount' = IncVertexCount(vertexCount)

\* Digraph.AddVertex: body of the critical section.
AddVertexBody(vertex) ==
    IF VertexFound(vertex)
    THEN UNCHANGED <<adjList, root, vertexCount>>
    ELSE /\ root' = IF RootUnset THEN vertex ELSE root
         /\ adjList' = [v \in DOMAIN adjList \cup {vertex} |->
                           IF v = vertex THEN NewAdjacencyList(vertex) ELSE adjList[v]]
         /\ vertexCount' = IncVertexCount(vertexCount)

\* Faulty insertion: the list is replaced by one that holds the target only.
PushBack_replace(a, target) == [a EXCEPT !.list = <<target>>]

\* Faulty insertion: PushFront instead of PushBack.
PushBack_front(a, target) == [a EXCEPT !.list = <<target>> \o @]

\* AddEdge line 100: adjList.list.PushBack(target).
PushBack(a, target) == [a EXCEPT !.list = Append(@, target)]

\* Faulty counter update: the increment is missing.
IncEdgeCount_none(n) == n

\* AddEdge line 101: d.edgeCount++.
IncEdgeCount(n) == n + 1

\* ------------------------------------------------------------ history
\* addEdgeNil counts the AddEdge calls that returned nil, in every run.
\* The rest of the log is kept only in runs whose calls are issued one at
\* a time: last is the most recent call with the state it started in and
\* the value it returned; addVertexArgs and addVertexNil count the
\* executions of AddVertex, those AddEdge makes included.  Mode "seq"
\* keeps in prev the call before last as well; modes "query" and
\* "scenario" keep instead the set of values ever passed to AddVertex or
\* AddEdge (passed), those of them that were passed to AddVertex or to an
\* AddEdge whose source and target differ (endpoints), and the first
\* vertex ever inserted (a sequence of length 0 or 1).  In mode "scenario" the caller is the test: it inserts the edges
\* of Scenario in order and queries the vertices of ScenarioVertex.
NoCall == [op |-> "none", source |-> NilVertex, target |-> NilVertex, all |-> FALSE]
NoLast == [op |-> "none", source |-> NilVertex, target |-> NilVertex, all |-> FALSE,
           ret |-> "none", val |-> "none",
           edgeCount |-> 0, vertexCount |-> 0, root |-> NilVertex, adjList |-> << >>]
NoPrev == [op |-> "none", source |-> NilVertex, target |-> NilVertex, ret |-> "none",
           edgeCount |-> 0, vertexCount |-> 0]
NoLog(mode) == [mode |-> mode, on |-> mode # "off", prev |-> NoPrev, last |-> NoLast,
                addVertexArgs |-> {}, addVertexNil |-> 0, addEdgeNil |-> 0,
                passed |-> {}, endpoints |-> {}, first |-> << >>]

\* The values a call passes as vertices to insert.
Passed(c) ==
    IF c.op = "AddVertex" THEN {c.source}
    ELSE IF c.op = "AddEdge" THEN {c.source, c.target}
    ELSE {}

\* A call starts: remember it together with the state it starts in.
LogCall(c) ==
    IF log.on
    THEN [log EXCEPT
            !.prev = IF log.mode = "seq"
                     THEN [op |-> log.last.op, source |-> log.last.source,
                           target |-> log.last.target, ret |-> log.last.ret,
                           edgeCount |-> log.last.edgeCount,
                           vertexCount |-> log.last.vertexCount]
                     ELSE @,
            !.last = [op |-> c.op, source |-> c.source, target |-> c.target, all |-> c.all,
                      ret |-> "pending", val |-> "none",
                      edgeCount |-> edgeCount, vertexCount |-> vertexCount, root |-> root,
                      adjList |-> adjList],
            !.passed = IF log.mode \in {"query", "scenario"} THEN @ \cup Passed(c) ELSE @,
            !.endpoints = IF log.mode \in {"query", "scenario"}
                             /\ ~(c.op = "AddEdge" /\ c.source = c.target)
                          THEN @ \cup Passed(c) ELSE @]
    ELSE log

\* AddVertex(vertex) ran and returned r.
LogAddVertex(l, vertex, r) ==
    IF l.on
    THEN [l EXCEPT !.addVertexArgs = @ \cup {vertex},
                   !.addVertexNil = IF r = NilError THEN @ + 1 ELSE @,
                   !.first = IF l.mode \in {"query", "scenario"} /\ r = NilError /\ @ = << >>
                             THEN <<vertex>> ELSE @]
    ELSE l

\* The call in progress returns r.
LogReturn(l, r) == IF l.on THEN [l EXCEPT !.last.ret = r] ELSE l

\* The call in progress returns the value v together with r.
LogValue(l, r, v) == IF l.on THEN [l EXCEPT !.last.ret = r, !.last.val = v] ELSE l

\* An AddEdge call returns r.
LogAddEdge(l, r) == [l EXCEPT !.addEdgeNil = IF r = NilError THEN @ + 1 ELSE @]

\* Thread t leaves its call.
Leave(t) ==
    /\ pc' = [pc EXCEPT ![t] = "idle"]
    /\ call' = [call EXCEPT ![t] = NoCall]

\* Thread t returns r to its caller.
Return(t, r) ==
    /\ Leave(t)
    /\ log' = LogReturn(log, r)

\* Thread t returns r from AddEdge.
ReturnAddEdge(t, r) ==
    /\ Leave(t)
    /\ log' = LogAddEdge(LogReturn(log, r), r)

\* Thread t returns the value v, with the error r where the call returns one.
ReturnValue(t, r, v) ==
    /\ Leave(t)
    /\ log' = LogValue(log, r, v)

\* Thread t panics: the deferred Unlock has run and the goroutine is gone.
Panic(t) ==
    /\ pc' = [pc EXCEPT ![t] = "panic"]
    /\ call' = call
    /\ log' = LogReturn(log, "panic")

New ==
    /\ m = 0
    /\ adjList = << >>
    /\ edgeCount = 0
    /\ root = NilVertex
    /\ vertexCount = 0
    /\ pc = [t \in Threads |-> "idle"]
    /\ call = [t \in Threads |-> NoCall]

Init == New /\ log = NoLog("off")
SeqInit == New /\ log = NoLog("seq")

\* ------------------------------------------------------------ actions
LockPoints == {"AddVertex", "AddEdge_AddSource", "AddEdge_AddTarget", "AddEdge_HasEdge",
               "AddEdge_DepthFirstSearch", "AddEdge_PushBack",
               "DepthFirstSearch", "EdgeCount", "HasEdge", "Print", "String", "VertexCount"}

\* An unrecovered panic or a stack overflow ends the program: no goroutine
\* runs on.
Running == \A t \in Threads : pc[t] \notin {"panic", "overflow"}

\* d.m.Lock()
Lock(t) ==
    /\ Running
    /\ pc[t] \in LockPoints
    /\ m = 0
    /\ m' = t
    /\ UNCHANGED <<adjList, edgeCount, root, vertexCount, pc, call, log>>

\* A caller invokes AddVertex(vertex).
CallAddVertex(t, vertex) ==
    /\ Running
    /\ pc[t] = "idle"
    /\ log.mode # "scenario"
    /\ call' = [call EXCEPT ![t] = [op |-> "AddVertex", source |-> vertex, target |-> vertex,
                                      all |-> FALSE]]
    /\ log' = LogCall(call'[t])
    /\ pc' = [pc EXCEPT ![t] = "AddVertex"]
    /\ UNCHANGED <<m, adjList, edgeCount, root, vertexCount>>

\* AddVertex, lines 48-65.
AddVertex(t) ==
    /\ pc[t] = "AddVertex"
    /\ m = t
    /\ AddVertexBody(call[t].source)
    /\ Leave(t)
    /\ log' = LogReturn(LogAddVertex(log, call[t].source, AddVertexResult(call[t].source)),
                        AddVertexResult(call[t].source))
    /\ m' = 0
    /\ UNCHANGED edgeCount

\* AddEdge(source, target) is entered; lines 70-73 run without the lock.
EnterAddEdge(t, source, target) ==
    /\ IF SameVertex(source, target)
       THEN /\ log' = LogAddEdge(LogReturn(LogCall([op |-> "AddEdge", source |-> source,
                                                    target |-> target, all |-> FALSE]),
                                           ErrCycle),
                                 ErrCycle)
            /\ UNCHANGED <<pc, call>>
       ELSE /\ call' = [call EXCEPT ![t] = [op |-> "AddEdge", source |-> source,
                                            target |-> target, all |-> FALSE]]
            /\ log' = LogCall(call'[t])
            /\ pc' = [pc EXCEPT ![t] = "AddEdge_AddSource"]
    /\ UNCHANGED <<m, adjList, edgeCount, root, vertexCount>>

\* A caller invokes AddEdge(source, target).
CallAddEdge(t, source, target) ==
    /\ Running
    /\ pc[t] = "idle"
    /\ log.mode # "scenario"
    /\ edgeCount < MaxEdges
    /\ EnterAddEdge(t, source, target)

\* The test inserts the next edge of Scenario.
ScenarioAddEdge(t) ==
    /\ Running
    /\ pc[t] = "idle"
    /\ log.mode = "scenario"
    /\ log.addEdgeNil < Len(Scenario)
    /\ EnterAddEdge(t, Scenario[log.addEdgeNil + 1][1], Scenario[log.addEdgeNil + 1][2])

\* AddEdge line 76: d.AddVertex(source), result ignored.
AddEdge_AddSource(t) ==
    /\ pc[t] = "AddEdge_AddSource"
    /\ m = t
    /\ AddVertexBody(call[t].source)
    /\ log' = LogAddVertex(log, call[t].source, AddVertexResult(call[t].source))
    /\ pc' = [pc EXCEPT ![t] = "AddEdge_AddTarget"]
    /\ m' = 0
    /\ UNCHANGED <<edgeCount, call>>

\* Faulty AddEdge: the target is not inserted.
AddEdge_AddTarget_skip(t) ==
    /\ pc[t] = "AddEdge_AddTarget"
    /\ m = t
    /\ pc' = [pc EXCEPT ![t] = "AddEdge_HasEdge"]
    /\ m' = 0
    /\ UNCHANGED <<adjList, root, vertexCount, edgeCount, call, log>>

\* AddEdge line 77: d.AddVertex(target), result ignored.
AddEdge_AddTarget(t) ==
    /\ pc[t] = "AddEdge_AddTarget"
    /\ m = t
    /\ AddVertexBody(call[t].target)
    /\ log' = LogAddVertex(log, call[t].target, AddVertexResult(call[t].target))
    /\ pc' = [pc EXCEPT ![t] = "AddEdge_HasEdge"]
    /\ m' = 0
    /\ UNCHANGED <<edgeCount, call>>

\* Faulty duplicate check: it returns ErrEdgeExists without releasing the
\* mutex.
AddEdge_HasEdge_locked(t) ==
    /\ pc[t] = "AddEdge_HasEdge"
    /\ m = t
    /\ IF HasEdge(adjList, call[t].source, call[t].target)
       THEN /\ ReturnAddEdge(t, ErrEdgeExists)
            /\ m' = m
       ELSE /\ pc' = [pc EXCEPT ![t] = "AddEdge_DepthFirstSearch"]
            /\ UNCHANGED <<call, log>>
            /\ m' = 0
    /\ UNCHANGED <<adjList, edgeCount, root, vertexCount>>

\* Faulty duplicate check: it counts the edge it refuses.
AddEdge_HasEdge_count(t) ==
    /\ pc[t] = "AddEdge_HasEdge"
    /\ m = t
    /\ IF HasEdge(adjList, call[t].source, call[t].target)
       THEN /\ ReturnAddEdge(t, ErrEdgeExists)
            /\ edgeCount' = edgeCount + 1
       ELSE /\ pc' = [pc EXCEPT ![t] = "AddEdge_DepthFirstSearch"]
            /\ UNCHANGED <<call, log, edgeCount>>
    /\ m' = 0
    /\ UNCHANGED <<adjList, root, vertexCount>>

\* AddEdge lines 80-83: d.HasEdge(source, target).
AddEdge_HasEdge(t) ==
    /\ pc[t] = "AddEdge_HasEdge"
    /\ m = t
    /\ IF HasEdge(adjList, call[t].source, call[t].target)
       THEN ReturnAddEdge(t, ErrEdgeExists)
       ELSE /\ pc' = [pc EXCEPT ![t] = "AddEdge_DepthFirstSearch"]
            /\ UNCHANGED <<call, log>>
    /\ m' = 0
    /\ UNCHANGED <<adjList, edgeCount, root, vertexCount>>

\* Faulty cycle check: on ErrCycle it deletes both endpoints from the map,
\* as a rollback that does not ask who created them would.
AddEdge_DepthFirstSearch_rollback(t) ==
    /\ pc[t] = "AddEdge_DepthFirstSearch"
    /\ m = t
    /\ LET found == DepthFirstSearch(adjList, call[t].target, call[t].source)
       IN IF found.panicked
          THEN Panic(t) /\ UNCHANGED <<adjList, vertexCount>>
          ELSE IF found.result
          THEN /\ ReturnAddEdge(t, ErrCycle)
               /\ adjList' = [v \in DOMAIN adjList \ {call[t].source, call[t].target} |-> adjList[v]]
               /\ vertexCount' = vertexCount - 2
          ELSE /\ pc' = [pc EXCEPT ![t] = "AddEdge_PushBack"]
               /\ UNCHANGED <<call, log, adjList, vertexCount>>
    /\ m' = 0
    /\ UNCHANGED <<edgeCount, root>>

\* AddEdge lines 87-90: d.DepthFirstSearch(target, source).
AddEdge_DepthFirstSearch(t) ==
    /\ pc[t] = "AddEdge_DepthFirstSearch"
    /\ m = t
    /\ LET found == DepthFirstSearch(adjList, call[t].target, call[t].source)
       IN IF found.panicked THEN Panic(t)
          ELSE IF found.result THEN ReturnAddEdge(t, ErrCycle)
          ELSE /\ pc' = [pc EXCEPT ![t] = "AddEdge_PushBack"]
               /\ UNCHANGED <<call, log>>
    /\ m' = 0
    /\ UNCHANGED <<adjList, edgeCount, root, vertexCount>>

\* AddEdge lines 93-106; d.adjList[source] of a missing key is a nil
\* pointer and adjList.list a nil dereference.
AddEdge_PushBack(t) ==
    /\ pc[t] = "AddEdge_PushBack"
    /\ m = t
    /\ IF call[t].source \notin DOMAIN adjList
       THEN /\ Panic(t)
            /\ UNCHANGED <<adjList, edgeCount>>
       ELSE /\ adjList' = [adjList EXCEPT ![call[t].source] = PushBack(@, call[t].target)]
            /\ edgeCount' = IncEdgeCount(edgeCount)
            /\ ReturnAddEdge(t, NilError)
    /\ m' = 0
    /\ UNCHANGED <<root, vertexCount>>

\* ------------------------------------------------------------ queries
\* The vertex values a caller passes to the queries.
Inputs == IF log.mode = "scenario" THEN ScenarioVertex ELSE Vertex

\* A caller invokes a query that takes two vertices.
CallQuery(t, op, source, target, all) ==
    /\ Running
    /\ pc[t] = "idle"
    /\ call' = [call EXCEPT ![t] = [op |-> op, source |-> source, target |-> target,
                                    all |-> all]]
    /\ log' = LogCall(call'[t])
    /\ pc' = [pc EXCEPT ![t] = op]
    /\ UNCHANGED <<m, adjList, edgeCount, root, vertexCount>>

CallDepthFirstSearch(t, source, target) == CallQuery(t, "DepthFirstSearch", source, target, FALSE)
CallHasEdge(t, source, target) == CallQuery(t, "HasEdge", source, target, FALSE)
CallEdgeCount(t) == CallQuery(t, "EdgeCount", NilVertex, NilVertex, FALSE)
CallVertexCount(t) == CallQuery(t, "VertexCount", NilVertex, NilVertex, FALSE)
CallPrint(t, vertex, all) == CallQuery(t, "Print", vertex, vertex, all)

\* DepthFirstSearch, lines 111-126.
Digraph_DepthFirstSearch(t) ==
    /\ pc[t] = "DepthFirstSearch"
    /\ m = t
    /\ LET found == DepthFirstSearch(adjList, call[t].source, call[t].target)
       IN IF found.panicked THEN Panic(t)
          ELSE ReturnValue(t, "value", found.result)
    /\ m' = 0
    /\ UNCHANGED <<adjList, edgeCount, root, vertexCount>>

\* EdgeCount, lines 145-149.
Digraph_EdgeCount(t) ==
    /\ pc[t] = "EdgeCount"
    /\ m = t
    /\ ReturnValue(t, "value", edgeCount)
    /\ m' = 0
    /\ UNCHANGED <<adjList, edgeCount, root, vertexCount>>

\* Faulty HasEdge: looking up a source that is no vertex inserts it.
Digraph_HasEdge_create(t) ==
    /\ pc[t] = "HasEdge"
    /\ m = t
    /\ ReturnValue(t, "value", HasEdge(adjList, call[t].source, call[t].target))
    /\ m' = 0
    /\ adjList' = [v \in DOMAIN adjList \cup {call[t].source} |->
                      IF v \in DOMAIN adjList THEN adjList[v]
                      ELSE NewAdjacencyList(v)]
    /\ UNCHANGED <<edgeCount, root, vertexCount>>

\* HasEdge, lines 153-174.
Digraph_HasEdge(t) ==
    /\ pc[t] = "HasEdge"
    /\ m = t
    /\ ReturnValue(t, "value", HasEdge(adjList, call[t].source, call[t].target))
    /\ m' = 0
    /\ UNCHANGED <<adjList, edgeCount, root, vertexCount>>

\* Print, lines 177-194.  A stack overflow is fatal: the program ends
\* with the mutex held.
Digraph_Print(t) ==
    /\ pc[t] = "Print"
    /\ m = t
    /\ LET r == PrintResult(adjList, call[t].source, call[t].all)
       IN IF r.overflow
          THEN /\ pc' = [pc EXCEPT ![t] = "overflow"]
               /\ log' = LogReturn(log, "overflow")
               /\ UNCHANGED <<m, call>>
          ELSE /\ IF r.panicked THEN Panic(t) ELSE ReturnValue(t, r.err, r.out)
               /\ m' = 0
    /\ UNCHANGED <<adjList, edgeCount, root, vertexCount>>

\* The values the read of d.root at line 231 can yield.  The read is not
\* under the mutex: while another goroutine is inside the critical
\* section of an AddVertex that will assign d.root, the read races with
\* the assignment and yields the old value, the new value, or a torn
\* interface value whose use panics.
RootWrites(t) ==
    {call[u].source : u \in {u \in Threads \ {t} :
         /\ m = u /\ pc[u] \in {"AddVertex", "AddEdge_AddSource"}
         /\ RootUnset /\ ~VertexFound(call[u].source)}}
    \cup
    {call[u].target : u \in {u \in Threads \ {t} :
         /\ m = u /\ pc[u] = "AddEdge_AddTarget"
         /\ RootUnset /\ ~VertexFound(call[u].target)}}
RootRead(t) ==
    {[torn |-> FALSE, vertex |-> root]}
    \cup {[torn |-> FALSE, vertex |-> w] : w \in RootWrites(t) \ {root}}
    \cup {[torn |-> TRUE, vertex |-> w] : w \in RootWrites(t) \ {root}}

\* A caller invokes String(); line 231 reads d.root before Print locks.
CallString(t) ==
    /\ Running
    /\ pc[t] = "idle"
    /\ \E r \in RootRead(t) :
          /\ call' = [call EXCEPT ![t] = [op |-> "String", source |-> r.vertex,
                                          target |-> r.vertex, all |-> FALSE]]
          /\ IF r.torn
             THEN /\ pc' = [pc EXCEPT ![t] = "panic"]
                  /\ log' = LogReturn(LogCall(call'[t]), "panic")
             ELSE /\ pc' = [pc EXCEPT ![t] = "String"]
                  /\ log' = LogCall(call'[t])
    /\ UNCHANGED <<m, adjList, edgeCount, root, vertexCount>>

\* String, lines 230-237: Print(d.root, false), "" when it fails.
Digraph_String(t) ==
    /\ pc[t] = "String"
    /\ m = t
    /\ LET r == PrintResult(adjList, call[t].source, FALSE)
       IN IF r.panicked THEN Panic(t)
          ELSE ReturnValue(t, "value", IF r.err # NilError THEN << >> ELSE r.out)
    /\ m' = 0
    /\ UNCHANGED <<adjList, edgeCount, root, vertexCount>>

\* VertexCount, lines 240-244.
Digraph_VertexCount(t) ==
    /\ pc[t] = "VertexCount"
    /\ m = t
    /\ ReturnValue(t, "value", vertexCount)
    /\ m' = 0
    /\ UNCHANGED <<adjList, edgeCount, root, vertexCount>>

\* One query step of thread t.
Query(t) ==
    \/ \E source \in Inputs, target \in Inputs : CallDepthFirstSearch(t, source, target)
    \/ \E source \in Inputs, target \in Inputs : CallHasEdge(t, source, target)
    \/ CallEdgeCount(t)
    \/ CallVertexCount(t)
    \/ \E vertex \in Inputs, all \in BOOLEAN : CallPrint(t, vertex, all)
    \/ CallString(t)
    \/ Digraph_DepthFirstSearch(t)
    \/ Digraph_EdgeCount(t)
    \/ Digraph_HasEdge(t)
    \/ Digraph_Print(t)
    \/ Digraph_String(t)
    \/ Digraph_VertexCount(t)

\* One step of thread t.
Step(t) ==
    \/ \E vertex \in Vertex : CallAddVertex(t, vertex)
    \/ \E source \in Vertex, target \in Vertex : CallAddEdge(t, source, target)
    \/ Lock(t)
    \/ AddVertex(t)
    \/ AddEdge_AddSource(t)
    \/ AddEdge_AddTarget(t)
    \/ AddEdge_HasEdge(t)
    \/ AddEdge_DepthFirstSearch(t)
    \/ AddEdge_PushBack(t)

\* Goroutines call concurrently.
Next == \E t \in Threads : Step(t)
Spec == Init /\ [][Next]_vars

\* Calls are issued one at a time: one caller makes call after call and
\* the other goroutines stay idle (the code keeps no per-goroutine state,
\* so which goroutine issues a call makes no difference).
Caller == CHOOSE t \in Threads : TRUE
SeqNext == Step(Caller)
SeqSpec == SeqInit /\ [][SeqNext]_vars

\* Calls are issued one at a time and the queries are among them; the
\* caller is any client, or the test that builds Scenario.
QueryInit == New /\ log \in {NoLog("query"), NoLog("scenario")}
QueryNext == Step(Caller) \/ Query(Caller) \/ ScenarioAddEdge(Caller)
QuerySpec == QueryInit /\ [][QueryNext]_vars

\* The critical sections of thread t: each runs with the mutex held and
\* ends by releasing it.
Section(t) ==
    \/ AddVertex(t)
    \/ AddEdge_AddSource(t)
    \/ AddEdge_AddTarget(t)
    \/ AddEdge_HasEdge(t)
    \/ AddEdge_DepthFirstSearch(t)
    \/ AddEdge_PushBack(t)
    \/ Digraph_DepthFirstSearch(t)
    \/ Digraph_EdgeCount(t)
    \/ Digraph_HasEdge(t)
    \/ Digraph_VertexCount(t)

\* The vertex values the callers pass in the runs checked for progress.
LiveVertex == Vertex \ {NilVertex}

\* One step of thread t when goroutines call AddVertex, AddEdge, HasEdge,
\* EdgeCount, VertexCount, and DepthFirstSearch on vertices of the graph.
LiveStep(t) ==
    \/ \E vertex \in LiveVertex : CallAddVertex(t, vertex)
    \/ \E source \in LiveVertex, target \in LiveVertex : CallAddEdge(t, source, target)
    \/ \E source \in DOMAIN adjList, target \in DOMAIN adjList :
          CallDepthFirstSearch(t, source, target)
    \/ \E source \in LiveVertex, target \in LiveVertex : CallHasEdge(t, source, target)
    \/ CallEdgeCount(t)
    \/ CallVertexCount(t)
    \/ Lock(t)
    \/ Section(t)

\* A goroutine that can run is scheduled in the end, so a section whose
\* thread holds the mutex is completed (weak fairness); the sync.RWMutex
\* hands its write lock to a goroutine that has waited for it, so
\* a thread that finds the mutex free again and again acquires it (strong
\* fairness).  Callers need not call.
LiveNext == \E t \in Threads : LiveStep(t)
LiveFairness == \A t \in Threads : WF_vars(Section(t)) /\ SF_vars(Lock(t))
LiveSpec == Init /\ [][LiveNext]_vars /\ LiveFairness

\* Goroutines call every operation concurrently.
FullNext == \E t \in Threads : Step(t) \/ Query(t)
FullSpec == Init /\ [][FullNext]_vars

\* ------------------------------------------------- graph vocabulary
\* The targets of the edges leaving the vertices of S.
Successors(G, S) ==
    UNION {{G[a].list[i] : i \in 1 .. Len(G[a].list)} : a \in S \cap DOMAIN G}

\* The least set holding R and closed under Successors.
RECURSIVE Closure(_, _)
Closure(G, R) ==
    IF Successors(G, R) \subseteq R THEN R ELSE Closure(G, R \cup Successors(G, R))

\* There is a path of one or more edges from a to b.
Reachable(G, a, b) == b \in Closure(G, Successors(G, {a}))

\* No vertex reaches itself.
Acyclic(G) == \A v \in DOMAIN G : ~Reachable(G, v, v)

\* b occurs in the adjacency list of a.
EdgePresent(G, a, b) == a \in DOMAIN G /\ \E i \in 1 .. Len(G[a].list) : G[a].list[i] = b

\* The adjacency list of v in G, empty when v is no vertex of G.
ListOf(G, v) == IF v \in DOMAIN G THEN G[v].list ELSE << >>

\* Sum of the lengths of the adjacency lists of the vertices in S.
RECURSIVE SumLen(_, _)
SumLen(G, S) ==
    IF S = {} THEN 0
    ELSE LET v == CHOOSE x \in S : TRUE IN Len(G[v].list) + SumLen(G, S \ {v})

\* The most recent call has returned normally.
Returned == log.last.ret \in {NilError, ErrCycle, ErrEdgeExists, ErrVertexExists}

\* ---------------------------------------------------------------- C1
\* C1: in runs whose calls do not overlap the graph is acyclic: no vertex
\* reaches itself by one or more edges, and DepthFirstSearch(v, v) returns
\* false for every vertex v.
C1_SequentialAcyclic ==
    /\ Acyclic(adjList)
    /\ \A v \in DOMAIN adjList :
          DepthFirstSearch(adjList, v, v) = [panicked |-> FALSE, result |-> FALSE]

\* An AddEdge that would have closed a cycle of length three was rejected.
C1_Witness ==
    /\ log.last.op = "AddEdge" /\ log.last.ret = ErrCycle
    /\ log.last.source # log.last.target
    /\ ~EdgePresent(adjList, log.last.target, log.last.source)
    /\ edgeCount >= 2

\* ---------------------------------------------------------------- C2
\* C2: the graph is acyclic in every state reachable when threads call
\* AddEdge concurrently.
C2_ConcurrentAcyclic == Acyclic(adjList)

\* ---------------------------------------------------------------- C3
\* C3: no target occurs twice in the adjacency list of any source, in
\* every state reachable by sequential or concurrent calls.
C3_NoDuplicateEdges ==
    \A s \in DOMAIN adjList : \A i, j \in 1 .. Len(adjList[s].list) :
        i # j => adjList[s].list[i] # adjList[s].list[j]

\* ---------------------------------------------------------------- C4
\* C4: in every reachable state the edge counter equals the sum of the
\* lengths of all adjacency lists.
C4_EdgeCount == edgeCount = SumLen(adjList, DOMAIN adjList)

\* Two edges are stored while one thread holds the lock to push a third
\* and another thread is inside a call of its own.
C4_Witness ==
    /\ edgeCount >= 2
    /\ \E t \in Threads, u \in Threads :
          t # u /\ pc[t] = "AddEdge_PushBack" /\ m = t /\ pc[u] # "idle"

\* ---------------------------------------------------------------- C5
\* C5: the vertex counter equals the number of keys of the map; every key
\* keeps the adjacency list object it got when it was inserted, and that
\* object was created empty.
C5_VertexCount ==
    /\ [](vertexCount = Cardinality(DOMAIN adjList))
    /\ [][/\ \A v \in DOMAIN adjList : v \in DOMAIN adjList' /\ adjList'[v].id = adjList[v].id
          /\ \A v \in DOMAIN adjList' \ DOMAIN adjList : adjList'[v].list = << >>]_vars

\* Every vertex value is a key, edges exist, and a thread holds the lock
\* to run AddVertex on a vertex that exists already.
C5_Witness ==
    /\ vertexCount = MaxVertex + 1
    /\ edgeCount >= 1
    /\ \E t \in Threads : pc[t] = "AddVertex" /\ m = t /\ call[t].source \in DOMAIN adjList

\* ---------------------------------------------------------------- C6
\* C6: AddVertex(v) returns ErrVertexExists iff v was a vertex already and
\* then changes nothing; otherwise it returns nil, adds v with an empty
\* list and raises the vertex counter by one.  The counter equals the
\* number of distinct values passed to AddVertex and the number of
\* AddVertex executions that returned nil.
C6_AddVertex ==
    /\ (log.last.op = "AddVertex" /\ Returned) =>
          LET v == log.last.source
              before == log.last.adjList
          IN /\ log.last.ret \in {ErrVertexExists, NilError}
             /\ (log.last.ret = ErrVertexExists) <=> (v \in DOMAIN before)
             /\ edgeCount = log.last.edgeCount
             /\ log.last.ret = ErrVertexExists =>
                   /\ adjList = before
                   /\ vertexCount = log.last.vertexCount
                   /\ root = log.last.root
             /\ log.last.ret = NilError =>
                   /\ DOMAIN adjList = DOMAIN before \cup {v}
                   /\ adjList[v].list = << >>
                   /\ \A w \in DOMAIN before : adjList[w] = before[w]
                   /\ vertexCount = log.last.vertexCount + 1
    /\ log.on => /\ vertexCount = Cardinality(log.addVertexArgs)
                 /\ vertexCount = log.addVertexNil

\* A second AddVertex of the same value has just been refused.
C6_Witness ==
    /\ log.last.op = "AddVertex" /\ log.last.ret = ErrVertexExists
    /\ log.prev.op = "AddVertex" /\ log.prev.ret = NilError
    /\ log.prev.source = log.last.source
    /\ vertexCount >= 2

\* ---------------------------------------------------------------- C7
\* C7: AddEdge(x, x) returns ErrCycle and changes nothing, whether or not
\* x is a vertex.
C7_SelfLoop ==
    (log.last.op = "AddEdge" /\ log.last.source = log.last.target) =>
        /\ log.last.ret = ErrCycle
        /\ adjList = log.last.adjList
        /\ vertexCount = log.last.vertexCount
        /\ root = log.last.root
        /\ edgeCount = log.last.edgeCount

\* AddEdge(x, x) was called for an x that is no vertex, on a graph that has
\* edges.
C7_Witness ==
    /\ log.last.op = "AddEdge" /\ log.last.source = log.last.target
    /\ log.last.ret = ErrCycle
    /\ log.last.source \notin DOMAIN adjList
    /\ edgeCount >= 1

\* ---------------------------------------------------------------- C8
\* The two most recent calls are AddEdge(a, b) twice in a row, a # b, and
\* the second has returned.
TwiceInARow ==
    /\ log.last.op = "AddEdge" /\ log.prev.op = "AddEdge"
    /\ log.last.source = log.prev.source /\ log.last.target = log.prev.target
    /\ log.last.source # log.last.target
    /\ Returned

C9_AddEdge ==
    /\ (/\ log.last.op = "AddEdge" /\ Returned
        /\ log.last.source # log.last.target
        /\ ~EdgePresent(log.last.adjList, log.last.source, log.last.target)) =>
          LET a == log.last.source
              b == log.last.target
              before == log.last.adjList
          IN /\ log.last.ret \in {ErrCycle, NilError}
             /\ (log.last.ret = ErrCycle) <=> Reachable(before, b, a)
             /\ log.last.ret = ErrCycle =>
                   /\ edgeCount = log.last.edgeCount
                   /\ \A v \in DOMAIN adjList : adjList[v].list = ListOf(before, v)
             /\ log.last.ret = NilError =>
                   /\ adjList[a].list = Append(ListOf(before, a), b)
                   /\ edgeCount = log.last.edgeCount + 1
                   /\ \A v \in DOMAIN adjList \ {a} : adjList[v].list = ListOf(before, v)
    /\ (/\ log.prev.op = "AddEdge" /\ log.prev.source = 1 /\ log.prev.target = 2
        /\ log.prev.vertexCount = 0
        /\ log.last.op = "AddEdge" /\ log.last.source = 2 /\ log.last.target = 1
        /\ Returned) =>
          /\ log.prev.ret = NilError
          /\ log.last.ret = ErrCycle
          /\ edgeCount = 1
          /\ vertexCount = 2

\* AddEdge(1, 2) on the empty graph, then AddEdge(2, 1), has run.
C9_Witness ==
    /\ log.prev.op = "AddEdge" /\ log.prev.source = 1 /\ log.prev.target = 2
    /\ log.prev.vertexCount = 0 /\ log.prev.ret = NilError
    /\ log.last.op = "AddEdge" /\ log.last.source = 2 /\ log.last.target = 1
    /\ log.last.ret = ErrCycle
    /\ edgeCount = 1 /\ vertexCount = 2

\* --------------------------------------------------------------- C10
\* C10 as claimed: after AddEdge(a, b) returns, whatever its result, both
\* a and b are vertices.
C10_Original ==
    (log.last.op = "AddEdge" /\ Returned) =>
        {log.last.source, log.last.target} \subseteq DOMAIN adjList

\* C10 amended: after AddEdge(a, b) with a # b returns, whatever its
\* result, the vertices are those present before the call together with a
\* and b; AddEdge(x, x) adds no vertex.
C10_VerticesKept ==
    (log.last.op = "AddEdge" /\ Returned) =>
        IF log.last.source # log.last.target
        THEN DOMAIN adjList = DOMAIN log.last.adjList \cup {log.last.source, log.last.target}
        ELSE DOMAIN adjList = DOMAIN log.last.adjList

\* An AddEdge on a graph that is not empty created both its endpoints.
C10_Witness ==
    /\ log.last.op = "AddEdge" /\ Returned
    /\ log.last.source # log.last.target
    /\ log.last.source \notin DOMAIN log.last.adjList
    /\ log.last.target \notin DOMAIN log.last.adjList
    /\ {log.last.source, log.last.target} \subseteq DOMAIN adjList
    /\ log.last.vertexCount >= 1

\* No call is in progress.
Idle == \A t \in Threads : pc[t] = "idle"

\* --------------------------------------------------------------- C11
\* C11 as claimed: after any sequence of AddVertex and AddEdge calls the
\* vertex counter equals the number of distinct values ever passed to
\* AddVertex or as source or target of AddEdge, failed calls included,
\* and VertexCount() returns that number.
C11_Original ==
    (log.on /\ Idle) =>
        /\ vertexCount = Cardinality(log.passed)
        /\ (log.last.op = "VertexCount" /\ log.last.ret = "value") =>
              log.last.val = Cardinality(log.passed)

\* C11 amended: the vertex counter, and the value VertexCount() returns,
\* equal the number of distinct values ever passed to AddVertex or as
\* source or target of an AddEdge call whose source and target differ,
\* failed calls included; AddEdge(x, x) inserts nothing.
C11_VertexCountPassed ==
    (log.on /\ Idle) =>
        /\ vertexCount = Cardinality(log.endpoints)
        /\ (log.last.op = "VertexCount" /\ log.last.ret = "value") =>
              log.last.val = Cardinality(log.endpoints)

\* VertexCount() has returned 2 on a graph with an edge, after calls that
\* passed three values, one of them only to AddEdge(x, x).
C11_Witness ==
    /\ Idle
    /\ log.last.op = "VertexCount" /\ log.last.ret = "value" /\ log.last.val = 2
    /\ Cardinality(log.passed) = 3 /\ Cardinality(log.endpoints) = 2
    /\ edgeCount >= 1

\* --------------------------------------------------------------- C12
\* C12: whether AddEdge calls run one after another or interleaved, the
\* edge counter equals the number of AddEdge calls that returned nil, and
\* the counter changes only in the step in which a call returns nil: a
\* call that ends with an error, or with a panic, never changes it.
C12_EdgeCountNil ==
    /\ [](edgeCount = log.addEdgeNil)
    /\ [][edgeCount' # edgeCount =>
             /\ edgeCount' = edgeCount + 1
             /\ log'.addEdgeNil = log.addEdgeNil + 1
             /\ \E t \in Threads : pc[t] = "AddEdge_PushBack" /\ pc'[t] = "idle"]_vars

\* Two calls have returned nil, and while another thread is inside a call
\* a thread holds the lock to refuse an edge that exists already.
C12_Witness ==
    /\ log.addEdgeNil = 2
    /\ \E t \in Threads, u \in Threads :
          /\ t # u /\ pc[u] # "idle"
          /\ pc[t] = "AddEdge_HasEdge" /\ m = t
          /\ HasEdge(adjList, call[t].source, call[t].target)

\* --------------------------------------------------------------- C13
\* The most recent call is DepthFirstSearch(source, target), it has ended,
\* and all of Scenario had been inserted before it.
ScenarioSearch(source, target) ==
    /\ log.mode = "scenario" /\ log.last.edgeCount = Len(Scenario)
    /\ log.last.op = "DepthFirstSearch" /\ log.last.ret # "pending"
    /\ log.last.source = source /\ log.last.target = target

\* C13: on every graph built by AddEdge and for all of its vertices s and
\* t, DepthFirstSearch(s, t) returns true iff a path of one or more edges
\* leads from s to t, so DepthFirstSearch(s, s) returns false; and once
\* the nine edges of Scenario are inserted, (1,2), (1,4) and (2,6) give
\* true and (6,3), (4,1) and (5,2) give false.
C13_DepthFirstSearch ==
    /\ (/\ log.last.op = "DepthFirstSearch" /\ log.last.ret # "pending"
        /\ {log.last.source, log.last.target} \subseteq DOMAIN log.last.adjList) =>
          /\ log.last.ret = "value"
          /\ log.last.val = Reachable(log.last.adjList, log.last.source, log.last.target)
          /\ log.last.source = log.last.target => log.last.val = FALSE
    /\ \A e \in {<<1, 2>>, <<1, 4>>, <<2, 6>>} :
          ScenarioSearch(e[1], e[2]) => log.last.ret = "value" /\ log.last.val = TRUE
    /\ \A e \in {<<6, 3>>, <<4, 1>>, <<5, 2>>} :
          ScenarioSearch(e[1], e[2]) => log.last.ret = "value" /\ log.last.val = FALSE

\* All of Scenario is inserted and DepthFirstSearch(1, 4) has returned
\* true: 4 is reached from 1 by three edges and by no fewer.
C13_Witness ==
    /\ ScenarioSearch(1, 4)
    /\ log.last.ret = "value" /\ log.last.val = TRUE
    /\ edgeCount = 9 /\ vertexCount = 6
    /\ ~EdgePresent(adjList, 1, 4)

\* The state is as the most recent call found it.
LastFrame ==
    /\ adjList = log.last.adjList
    /\ vertexCount = log.last.vertexCount
    /\ edgeCount = log.last.edgeCount
    /\ root = log.last.root

\* --------------------------------------------------------------- C14
\* C14: DepthFirstSearch(source, target) with a source that is no vertex
\* of the graph returns false as a normal result, without a fault, and
\* leaves the state as it was.
C14_UnknownSource ==
    (/\ log.last.op = "DepthFirstSearch" /\ log.last.ret # "pending"
     /\ log.last.source \notin DOMAIN log.last.adjList) =>
        /\ log.last.ret = "value"
        /\ log.last.val = FALSE
        /\ LastFrame

\* --------------------------------------------------------------- C15
\* C15: HasEdge(source, target) returns true iff source is a vertex and
\* target occurs in its adjacency list, whatever the values of source and
\* target; it returns false when source is no vertex, and it leaves the
\* state as it was.
C15_HasEdge ==
    (log.last.op = "HasEdge" /\ log.last.ret # "pending") =>
        /\ log.last.ret = "value"
        /\ log.last.val = EdgePresent(log.last.adjList, log.last.source, log.last.target)
        /\ log.last.source \notin DOMAIN log.last.adjList => log.last.val = FALSE
        /\ LastFrame

\* --------------------------------------------------------------- C16
\* C16: in sequential use Print(root, all) returns ErrVertexNotExists and
\* the empty string iff root is no vertex, and for a vertex it returns nil
\* and a string that starts with the line of root; String() returns the
\* empty string on a graph without vertices and otherwise the string
\* Print(d.root, false) returns.  Neither changes the state.
C16_PrintErrors ==
    /\ (log.last.op = "Print" /\ log.last.ret # "pending") =>
          /\ log.last.ret \in {NilError, ErrVertexNotExists}
          /\ (log.last.ret = ErrVertexNotExists) <=> (log.last.source \notin DOMAIN log.last.adjList)
          /\ log.last.ret = ErrVertexNotExists => log.last.val = << >>
          /\ log.last.ret = NilError =>
                /\ log.last.val # << >>
                /\ log.last.val[1] = [prefix |-> "", vertex |-> log.last.source, depth |-> 0]
          /\ LastFrame
    /\ (log.last.op = "String" /\ log.last.ret # "pending") =>
          /\ log.last.ret = "value"
          /\ log.last.vertexCount = 0 => log.last.val = << >>
          /\ log.last.vertexCount > 0 =>
                /\ log.last.root \in DOMAIN log.last.adjList
                /\ log.last.val = PrintResult(log.last.adjList, log.last.root, FALSE).out
                /\ log.last.val # << >>
          /\ LastFrame

\* Print of a value that is no vertex has failed on a graph that has
\* vertices and edges.
C16_Witness ==
    /\ log.last.op = "Print" /\ log.last.ret = ErrVertexNotExists
    /\ log.last.val = << >>
    /\ vertexCount >= 2 /\ edgeCount >= 1

\* --------------------------------------------------------------- C17
\* C17: from the first insertion of a vertex on, d.root is the first
\* vertex ever inserted, whatever value that vertex is, the nil value
\* included, so d.root never changes afterwards.
C17_RootFirst ==
    (log.on /\ log.first # << >>) => root = log.first[1]

\* --------------------------------------------------------------- C18
\* The errors AddVertex and AddEdge return.
Errors == {ErrVertexExists, ErrEdgeExists, ErrCycle}

\* The two most recent calls are the same call with the same arguments.
SameCallTwice ==
    /\ log.last.op \in {"AddVertex", "AddEdge"}
    /\ log.prev.op = log.last.op
    /\ log.prev.source = log.last.source /\ log.prev.target = log.last.target

\* C18: in sequential use an AddVertex or AddEdge call that returns an
\* error leaves the map with its adjacency lists, both counters and the
\* root exactly as the call found them, so the graph is still acyclic and
\* the counters still agree with the map and the lists; and when the call
\* before it was the same call and failed, it returns the same error.
C18_ErrorFrame ==
    /\ (log.last.op \in {"AddVertex", "AddEdge"} /\ log.last.ret \in Errors) =>
          /\ adjList = log.last.adjList
          /\ vertexCount = log.last.vertexCount
          /\ edgeCount = log.last.edgeCount
          /\ root = log.last.root
          /\ Acyclic(adjList)
          /\ vertexCount = Cardinality(DOMAIN adjList)
          /\ edgeCount = SumLen(adjList, DOMAIN adjList)
    /\ (SameCallTwice /\ log.prev.ret \in Errors /\ Returned) =>
          log.last.ret = log.prev.ret

\* An AddEdge between two different vertices failed with ErrCycle and its
\* immediate repetition failed with ErrCycle again, on a graph of two or
\* more edges.
C18_Witness ==
    /\ SameCallTwice /\ log.last.op = "AddEdge"
    /\ log.last.source # log.last.target
    /\ log.prev.ret = ErrCycle /\ log.last.ret = ErrCycle
    /\ edgeCount >= 2

\* --------------------------------------------------------------- C19
\* C19: in every reachable state, those reached by interleaved AddEdge
\* calls included, Print(root, true) terminates for every vertex root: no
\* call of it recurses without end.
C19_PrintTerminates == \A t \in Threads : pc[t] # "overflow"

\* --------------------------------------------------------------- C20
\* The vertices of the lines of a printed string.
Printed(out) == {out[i].vertex : i \in 1 .. Len(out)}

\* C20: on a graph built by calls issued one at a time, the string that
\* Print(root, false) returns for a vertex root has exactly one line for
\* root, exactly one line for each vertex reachable from root, and no
\* line for any other vertex.
C20_PrintOnce ==
    (log.last.op = "Print" /\ ~log.last.all /\ log.last.ret = NilError) =>
        LET reach == {log.last.source} \cup
                     {v \in DOMAIN log.last.adjList :
                         Reachable(log.last.adjList, log.last.source, v)}
        IN /\ Printed(log.last.val) = reach
           /\ Len(log.last.val) = Cardinality(reach)

\* Print(1, false) has returned six lines on the graph of Scenario, where
\* 5 and 6 are reached from 1 along several paths.
C20_Witness ==
    /\ log.mode = "scenario" /\ log.last.edgeCount = Len(Scenario)
    /\ log.last.op = "Print" /\ ~log.last.all /\ log.last.ret = NilError
    /\ log.last.source = 1
    /\ Len(log.last.val) = 6
    /\ Cardinality({i \in DOMAIN Scenario : Scenario[i][2] = 5}) > 1

\* --------------------------------------------------------------- C21
\* Line j of a printed string is a child of line p: p is the nearest line
\* before j written one call higher up.
ChildOf(out, j, p) ==
    /\ p < j
    /\ out[p].depth = out[j].depth - 1
    /\ \A k \in p + 1 .. j - 1 : out[k].depth >= out[j].depth

\* Line j is the last of the lines printed under its parent p.
LastChild(out, j, p) ==
    \A k \in j + 1 .. Len(out) : ~ChildOf(out, k, p)

\* The string out has the markers of its lines as C21 describes them.
Marked(out) ==
    \A j \in 1 .. Len(out) :
        /\ Len(out[j].prefix) = 4 * out[j].depth
        /\ \A p \in 1 .. Len(out) :
              ChildOf(out, j, p) =>
                 out[j].prefix =
                    out[p].prefix \o (IF LastChild(out, j, p) THEN "    " ELSE "   |")

\* C21: in the string Print returns, for all = true and all = false, a
\* line printed under a parent has the parent's prefix extended by four
\* spaces when it is the last line printed under that parent and by
\* "   |" otherwise, so a line at depth k has a prefix of 4k characters.
\* Read on graphs in which the nil value is no vertex, where no adjacency
\* list holds a value twice.
C21_Markers ==
    (/\ log.last.op = "Print" /\ log.last.ret = NilError
     /\ NilVertex \notin DOMAIN log.last.adjList) =>
        Marked(log.last.val)

\* C21 for all = true only, where every successor is printed.
C21_MarkersAll ==
    (log.last.op = "Print" /\ log.last.ret = NilError /\ log.last.all) =>
        Marked(log.last.val)

\* The prefix lengths alone.
C21_PrefixLength ==
    (log.last.op = "Print" /\ log.last.ret = NilError) =>
        \A j \in 1 .. Len(log.last.val) :
            Len(log.last.val[j].prefix) = 4 * log.last.val[j].depth

\* --------------------------------------------------------------- C22
\* C22: with threads calling AddVertex, AddEdge, HasEdge, EdgeCount,
\* VertexCount, and DepthFirstSearch on vertices of the graph, under fair
\* scheduling every started call returns: a thread that has returned does
\* not hold the mutex, a thread never arrives at d.m.Lock() holding the
\* mutex, no call panics, and while a call is in progress some thread can
\* take a step.
C22_EveryCallReturns ==
    /\ [](\A t \in Threads : pc[t] = "idle" => m # t)
    /\ [](\A t \in Threads : pc[t] # "panic")
    /\ [][\A t \in Threads : (pc'[t] # pc[t] /\ pc'[t] \in LockPoints) => m' # t]_vars
    /\ []((\E t \in Threads : pc[t] # "idle") =>
             ENABLED (\E t \in Threads : Lock(t) \/ Section(t)))
    /\ \A t \in Threads : (pc[t] # "idle") ~> (pc[t] = "idle")

\* A thread waits at d.m.Lock() inside AddEdge while the other thread
\* holds the mutex inside a call of its own, on a graph that has an edge.
C22_Witness ==
    /\ edgeCount >= 1
    /\ \E t \in Threads, u \in Threads :
          /\ t # u /\ m = u /\ pc[u] \in LockPoints
          /\ pc[t] = "AddEdge_DepthFirstSearch"

\* --------------------------------------------------------------- C23
\* The sequence s is a prefix of the sequence r.
IsPrefix(s, r) == Len(s) <= Len(r) /\ \A i \in 1 .. Len(s) : s[i] = r[i]

\* C23: in every step of every execution neither counter decreases, and
\* when the step changes the map, no vertex is lost and the adjacency
\* list of each vertex before the step is a prefix of its list after the
\* step, which is at most one element longer; so HasEdge(a, b) and
\* DepthFirstSearch(a, b), once true, stay true.
C23_AppendOnly ==
    [][/\ vertexCount' >= vertexCount
       /\ edgeCount' >= edgeCount
       /\ adjList' # adjList =>
             /\ DOMAIN adjList \subseteq DOMAIN adjList'
             /\ \A v \in DOMAIN adjList :
                   /\ IsPrefix(adjList[v].list, adjList'[v].list)
                   /\ Len(adjList'[v].list) <= Len(adjList[v].list) + 1
             /\ \A a \in Vertex, b \in Vertex :
                   HasEdge(adjList, a, b) => HasEdge(adjList', a, b)
             /\ \A a \in DOMAIN adjList, b \in Vertex :
                   DepthFirstSearch(adjList, a, b).result =>
                      DepthFirstSearch(adjList', a, b).result]_vars

\* A vertex has two successors, and while another thread is inside a
\* call a thread holds the mutex to append a third edge to a list that
\* is not empty.
C23_Witness ==
    /\ \E v \in DOMAIN adjList : Len(adjList[v].list) = 2
    /\ \E t \in Threads, u \in Threads :
          /\ t # u /\ pc[u] # "idle"
          /\ pc[t] = "AddEdge_PushBack" /\ m = t
          /\ call[t].source \in DOMAIN adjList
          /\ Len(adjList[call[t].source].list) >= 1

\* --------------------------------------------------------------- C24
\* C24: in every reachable state every value stored in an adjacency list
\* is a key of the map, so dfs and printRecursive started from a vertex
\* never look up a key the map lacks: no traversal from a vertex panics,
\* and the only calls that panic are DepthFirstSearch with a source that
\* is no vertex and String with a torn read of d.root.
C24_EdgesClosed ==
    /\ \A s \in DOMAIN adjList : \A i \in 1 .. Len(adjList[s].list) :
          adjList[s].list[i] \in DOMAIN adjList
    /\ \A v \in DOMAIN adjList :
          /\ ~dfs(adjList, {}, v).panicked
          /\ \A all \in BOOLEAN : ~printRecursive(adjList, {}, v, "", all, << >>).panicked
    /\ \A t \in Threads :
          pc[t] = "panic" =>
             \/ call[t].op = "DepthFirstSearch" /\ call[t].source \notin DOMAIN adjList
             \/ call[t].op = "String"

\* The graph has two edges and a thread holds the mutex to run the
\* cycle check of AddEdge, a traversal from the target, while the other
\* thread is inside a call.
C24_Witness ==
    /\ edgeCount = 2
    /\ \E t \in Threads, u \in Threads :
          /\ t # u /\ pc[u] # "idle"
          /\ pc[t] = "AddEdge_DepthFirstSearch" /\ m = t
          /\ call[t].target \in DOMAIN adjList
          /\ Len(adjList[call[t].target].list) >= 1

\* --------------------------------------------------------------- C25
\* The queries.
Queries == {"HasEdge", "DepthFirstSearch", "EdgeCount", "VertexCount", "Print", "String"}

\* C25: HasEdge, DepthFirstSearch with a source that is a vertex,
\* EdgeCount, VertexCount, Print and String leave the map, the adjacency
\* lists, both counters and the root as they found them, and what each
\* returns is determined by its arguments and the state it found, whatever
\* queries ran before it.
C25_QueryFrame ==
    (/\ log.last.op \in Queries
     /\ log.last.op = "DepthFirstSearch" => log.last.source \in DOMAIN log.last.adjList) =>
        /\ LastFrame
        /\ log.last.ret \in {"pending", "value", NilError, ErrVertexNotExists}
        /\ (log.last.op = "HasEdge" /\ log.last.ret # "pending") =>
              log.last.val = HasEdge(log.last.adjList, log.last.source, log.last.target)
        /\ (log.last.op = "DepthFirstSearch" /\ log.last.ret # "pending") =>
              log.last.val =
                 DepthFirstSearch(log.last.adjList, log.last.source, log.last.target).result
        /\ (log.last.op = "EdgeCount" /\ log.last.ret # "pending") =>
              log.last.val = log.last.edgeCount
        /\ (log.last.op = "VertexCount" /\ log.last.ret # "pending") =>
              log.last.val = log.last.vertexCount
        /\ (log.last.op = "Print" /\ log.last.ret # "pending") =>
              LET r == PrintResult(log.last.adjList, log.last.source, log.last.all)
              IN log.last.ret = r.err /\ log.last.val = r.out
        /\ (log.last.op = "String" /\ log.last.ret # "pending") =>
              LET r == PrintResult(log.last.adjList, log.last.root, FALSE)
              IN log.last.val = IF r.err = NilError THEN r.out ELSE << >>

\* HasEdge has returned false for a source that is no vertex, on a graph
\* that has vertices and edges, and the source is still no vertex.
C25_Witness ==
    /\ log.last.op = "HasEdge" /\ log.last.ret = "value" /\ log.last.val = FALSE
    /\ log.last.source \notin DOMAIN adjList
    /\ vertexCount >= 2 /\ edgeCount >= 1

====
